---- MODULE Spec2Model ----
(***************************************************************************)
(* A model of the Ansible modules for CoreOS Fleet:                        *)
(*   - cloud/coreos/fleet_unit.py : unit(), the reconciler of one unit     *)
(*   - cloud/fleet.py             : main() and parse_facts(), the parser   *)
(* The Fleet daemon and the python-fleet client are the environment: a     *)
(* remote call may be accepted, answer 404 or answer another API error,    *)
(* and the cluster changes between two calls of an invocation.             *)
(***************************************************************************)
EXTENDS Integers, Sequences, FiniteSets, TLC

\* ------------------------------------------------------------------ bounds
MaxPollRetry == 2

MaxRows == 2

\* --------------------------------------------------------------- constants
\* argument_spec state choices
States == {"present", "started", "stopped", "restarted", "absent"}

\* the unit states the module names
UnitStates == {"inactive", "loaded", "launched"}

VARIABLES
    \* ---- the cluster (remote side)
    cluster,      \* [exists, currentState, desiredState] of the named unit
    \* ---- fleet_unit invocation
    params,       \* module.params
    pc,           \* position in unit() and its callees
    inst,         \* the local Unit handle, or NoInst for None
    changed,      \* unit(): changed
    msg,          \* unit(): msg, or the fail_json msg, or the exception's type
    result,       \* "none" | "exit" (exit_json) | "fail" (fail_json) | "exception"
    reqState,     \* set_desired_state_or_fail / create_unit_or_fail: state argument
    remaining,    \* set_desired_state_or_fail: remaining
    retTo,        \* the call site set_desired_state_or_fail returns to
    trace,        \* the remote calls and sleeps of this invocation, in order
    lookup,       \* what the first lookup of this invocation answered
    prev,         \* summary of the previous invocation
    \* ---- fleet: parse_facts
    command,      \* parse_facts: command
    output,       \* parse_facts: output, the text as a sequence of characters
    facts,        \* parse_facts: the facts returned
    raised,       \* "none", "returned", or the type of the exception raised
    \* ---- fleet: main
    unit,         \* main(): whether the unit argument is given (non-empty)
    invoked,      \* whether subprocess.check_output was called
    returncode,   \* the exit status of the fleetctl process
    mainpc,       \* position in main()
    report        \* what main() hands to exit_json / fail_json

unitVars == <<cluster, params, pc, inst, changed, msg, result, reqState,
              remaining, retTo, trace, lookup, prev>>

mainVars == <<unit, invoked, returncode, mainpc, report>>

parseVars == <<command, output, facts, raised, mainVars>>

vars == <<unitVars, parseVars>>

\* ----------------------------------------------------------------- helpers
NoUnit == [exists |-> FALSE, currentState |-> "-", desiredState |-> "-"]

NoInst == [live |-> FALSE, currentState |-> "-"]

Handle(s) == [live |-> TRUE, currentState |-> s]

NoParams == [state |-> "started", name |-> FALSE, src |-> FALSE, text |-> FALSE,
             options |-> FALSE, oneway |-> FALSE, poll_retry |-> 1]

Ev(op, arg, res) == [op |-> op, arg |-> arg, res |-> res]

Log(op, arg, res) == trace' = Append(trace, Ev(op, arg, res))

\* module.fail_json(msg=m): the module ends with a failure result
fail_json(m) ==
    /\ pc' = "done"
    /\ result' = "fail"
    /\ msg' = m

\* an exception nobody catches: the module ends with a traceback
Raise(e) ==
    /\ pc' = "done"
    /\ result' = "exception"
    /\ msg' = e

\* module.exit_json(msg=msg, changed=changed)
exit_json(m) ==
    /\ pc' = "done"
    /\ result' = "exit"
    /\ msg' = m

\* ------------------------------------------------------------ environment
\* The environment's steps are taken while the module runs or between two
\* invocations; a step at "done" is the same step taken after ProcessExit.
\* The Fleet daemon brings the unit's current state to its desired state.
EnvConverge ==
    /\ pc # "done"
    /\ cluster.exists
    /\ cluster.currentState # cluster.desiredState
    /\ cluster' = [cluster EXCEPT !.currentState = cluster.desiredState]
    /\ UNCHANGED <<params, pc, inst, changed, msg, result, reqState, remaining,
                   retTo, trace, lookup, prev>>
    /\ UNCHANGED parseVars

\* Another party destroys the unit.
EnvDestroy ==
    /\ pc # "done"
    /\ cluster.exists
    /\ cluster' = NoUnit
    /\ UNCHANGED <<params, pc, inst, changed, msg, result, reqState, remaining,
                   retTo, trace, lookup, prev>>
    /\ UNCHANGED parseVars

\* Another party submits the unit with some desired state.
EnvCreate ==
    /\ pc # "done"
    /\ ~cluster.exists
    /\ \E d \in UnitStates :
          cluster' = [exists |-> TRUE, currentState |-> "inactive", desiredState |-> d]
    /\ UNCHANGED <<params, pc, inst, changed, msg, result, reqState, remaining,
                   retTo, trace, lookup, prev>>
    /\ UNCHANGED parseVars

\* ------------------------------------------------------------- fleet_unit
\* main(): AnsibleModule(argument_spec) and the call of unit(client, module)
Invoke ==
    /\ pc = "idle"
    /\ \E st \in States, nm \in BOOLEAN, sr \in BOOLEAN, tx \in BOOLEAN,
          op \in BOOLEAN, ow \in BOOLEAN, pr \in 1..MaxPollRetry :
          params' = [state |-> st, name |-> nm, src |-> sr, text |-> tx,
                     options |-> op, oneway |-> ow, poll_retry |-> pr]
    /\ pc' = "unit"
    /\ UNCHANGED <<cluster, inst, changed, msg, result, reqState, remaining,
                   retTo, trace, lookup, prev>>
    /\ UNCHANGED parseVars

\* What an invocation that has ended leaves behind for the next one to follow.
Summary ==
    IF result = "exit" /\ params.state = "started" /\ lookup = "notfound" /\ changed
    THEN "started:created"
    ELSE IF result = "exit" /\ params.state = "present" /\ lookup \in UnitStates
              /\ ~changed
    THEN "present:unchanged"
    ELSE "-"

\* The module's process ends (exit_json, fail_json or a traceback); nothing of
\* the invocation survives but the cluster.
ProcessExit ==
    /\ pc = "done"
    /\ prev' = Summary
    /\ pc' = "idle"
    /\ params' = NoParams
    /\ inst' = NoInst
    /\ changed' = FALSE
    /\ msg' = "None"
    /\ result' = "none"
    /\ reqState' = "-"
    /\ remaining' = 0
    /\ retTo' = "-"
    /\ trace' = <<>>
    /\ lookup' = "nolookup"
    /\ UNCHANGED cluster
    /\ UNCHANGED parseVars

\* unit(): the dispatch on state and name
UnitEntry ==
    /\ pc = "unit"
    /\ IF params.state = "absent"
       THEN IF ~params.name
            THEN fail_json("name is required")
            ELSE pc' = "absent_get" /\ UNCHANGED <<result, msg>>
       ELSE /\ pc' = IF params.name THEN "lookup" ELSE "stop_phase"
            /\ UNCHANGED <<result, msg>>
    /\ UNCHANGED <<cluster, params, inst, changed, reqState, remaining, retTo,
                   trace, lookup, prev>>
    /\ UNCHANGED parseVars

\* state == 'absent': inst = get_unit(client, name)
AbsentGet ==
    /\ pc = "absent_get"
    /\ \/ /\ cluster.exists
          /\ inst' = Handle(cluster.currentState)
          /\ lookup' = cluster.currentState
          /\ Log("get", "-", "ok")
          /\ pc' = "absent_destroy"
          /\ UNCHANGED <<result, msg>>
       \/ /\ ~cluster.exists
          /\ lookup' = "notfound"
          /\ Log("get", "-", "404")
          /\ exit_json("unit did not exist")
          /\ UNCHANGED inst
       \/ /\ lookup' = "error"
          /\ Log("get", "-", "error")
          /\ fail_json("could not destroy unit")
          /\ UNCHANGED inst
    /\ UNCHANGED <<cluster, params, changed, reqState, remaining, retTo, prev>>
    /\ UNCHANGED parseVars

\* AbsentDestroy without "changed = True"
AbsentDestroy_changedNotSet ==
    /\ pc = "absent_destroy"
    /\ \/ /\ cluster.exists
          /\ cluster' = NoUnit
          /\ Log("destroy", "-", "ok")
          /\ exit_json("destroyed existing unit")
       \/ /\ ~cluster.exists
          /\ Log("destroy", "-", "404")
          /\ fail_json("could not destroy unit")
          /\ UNCHANGED cluster
       \/ /\ Log("destroy", "-", "error")
          /\ fail_json("could not destroy unit")
          /\ UNCHANGED cluster
    /\ UNCHANGED <<params, inst, changed, reqState, remaining, retTo, lookup, prev>>
    /\ UNCHANGED parseVars

\* state == 'absent': inst.destroy()
AbsentDestroy ==
    /\ pc = "absent_destroy"
    /\ \/ /\ cluster.exists
          /\ cluster' = NoUnit
          /\ Log("destroy", "-", "ok")
          /\ changed' = TRUE
          /\ exit_json("destroyed existing unit")
       \/ /\ ~cluster.exists
          /\ Log("destroy", "-", "404")
          /\ fail_json("could not destroy unit")
          /\ UNCHANGED <<cluster, changed>>
       \/ /\ Log("destroy", "-", "error")
          /\ fail_json("could not destroy unit")
          /\ UNCHANGED <<cluster, changed>>
    /\ UNCHANGED <<params, inst, reqState, remaining, retTo, lookup, prev>>
    /\ UNCHANGED parseVars

\* state != 'absent': inst = get_unit_if_exists(client, name)
Lookup ==
    /\ pc = "lookup"
    /\ \/ /\ cluster.exists
          /\ inst' = Handle(cluster.currentState)
          /\ lookup' = cluster.currentState
          /\ Log("get", "-", "ok")
          /\ pc' = "stop_phase"
          /\ UNCHANGED <<result, msg>>
       \/ /\ ~cluster.exists
          /\ inst' = NoInst
          /\ lookup' = "notfound"
          /\ Log("get", "-", "404")
          /\ pc' = "stop_phase"
          /\ UNCHANGED <<result, msg>>
       \/ /\ lookup' = "error"
          /\ Log("get", "-", "error")
          /\ fail_json("could not retrieve unit")
          /\ UNCHANGED inst
    /\ UNCHANGED <<cluster, params, changed, reqState, remaining, retTo, prev>>
    /\ UNCHANGED parseVars

\* unit(): the branch taken by "if state in ('stopped', 'restarted')"
StopBranch(state, i) ==
    IF state \in {"stopped", "restarted"}
    THEN IF ~i.live THEN "did_not_exist"
         ELSE IF i.currentState = "launched" THEN "stop"
         ELSE "already_stopped"
    ELSE "skip"

\* unit(): if state in ('stopped', 'restarted')
StopPhase ==
    /\ pc = "stop_phase"
    /\ \/ /\ StopBranch(params.state, inst) = "did_not_exist"
          /\ msg' = "unit did not exist"
          /\ pc' = "start_phase"
          /\ UNCHANGED <<reqState, retTo>>
       \/ /\ StopBranch(params.state, inst) = "stop"
          /\ reqState' = "inactive"
          /\ retTo' = "stop"
          /\ pc' = "set"
          /\ UNCHANGED msg
       \/ /\ StopBranch(params.state, inst) = "already_stopped"
          /\ msg' = "unit already stopped"
          /\ pc' = "start_phase"
          /\ UNCHANGED <<reqState, retTo>>
       \/ /\ StopBranch(params.state, inst) = "skip"
          /\ pc' = "start_phase"
          /\ UNCHANGED <<msg, reqState, retTo>>
    /\ UNCHANGED <<cluster, params, inst, changed, result, remaining, trace,
                   lookup, prev>>
    /\ UNCHANGED parseVars

\* ReturnInst without "changed = True" in unit()
ReturnInst_changedNotSet(i) ==
    /\ inst' = i
    /\ UNCHANGED changed
    /\ IF retTo = "stop"
       THEN /\ msg' = "unit stopped"
            /\ pc' = "start_phase"
            /\ UNCHANGED result
       ELSE exit_json("existing unit was started")

\* set_desired_state_or_fail returns inst to its call site in unit()
ReturnInst(i) ==
    /\ inst' = i
    /\ changed' = TRUE
    /\ IF retTo = "stop"
       THEN /\ msg' = "unit stopped"
            /\ pc' = "start_phase"
            /\ UNCHANGED result
       ELSE exit_json("existing unit was started")

\* set_desired_state_or_fail: inst.set_desired_state(state) and the check of
\* the state it returns
SetDesiredState ==
    /\ pc = "set"
    /\ \/ /\ cluster.exists
          /\ \E target_state \in UnitStates :
                /\ cluster' = [cluster EXCEPT !.desiredState = target_state]
                /\ IF target_state # reqState
                   THEN /\ Log("set", reqState, "refused")
                        /\ fail_json("could not set state")
                        /\ UNCHANGED <<inst, changed, remaining>>
                   ELSE /\ Log("set", reqState, "ok")
                        /\ \E s \in {inst.currentState, cluster.currentState} :
                              IF params.oneway
                              THEN /\ ReturnInst(Handle(s))
                                   /\ UNCHANGED remaining
                              ELSE /\ inst' = Handle(s)
                                   /\ remaining' = params.poll_retry
                                   /\ pc' = "poll"
                                   /\ UNCHANGED <<changed, msg, result>>
       \/ /\ ~cluster.exists
          /\ Log("set", reqState, "404")
          /\ fail_json("could not retrieve unit")
          /\ UNCHANGED <<cluster, inst, changed, remaining>>
       \/ /\ Log("set", reqState, "error")
          /\ fail_json("could not retrieve unit")
          /\ UNCHANGED <<cluster, inst, changed, remaining>>
    /\ UNCHANGED <<params, reqState, retTo, lookup, prev>>
    /\ UNCHANGED parseVars

\* Poll with "if remaining < 0" for "if remaining <= 0"
Poll_oneMoreFetch ==
    /\ pc = "poll"
    /\ \/ /\ cluster.exists
          /\ Log("get", "-", "ok")
          /\ IF cluster.currentState = reqState
             THEN /\ ReturnInst(Handle(cluster.currentState))
                  /\ UNCHANGED remaining
             ELSE /\ inst' = Handle(cluster.currentState)
                  /\ remaining' = remaining - 1
                  /\ UNCHANGED changed
                  /\ IF remaining - 1 < 0
                     THEN Raise("ValueError")
                     ELSE pc' = "sleep" /\ UNCHANGED <<msg, result>>
       \/ /\ ~cluster.exists
          /\ Log("get", "-", "404")
          /\ Raise("NotFound")
          /\ UNCHANGED <<inst, changed, remaining>>
       \/ /\ Log("get", "-", "error")
          /\ fail_json("could not retrieve unit")
          /\ UNCHANGED <<inst, changed, remaining>>
    /\ UNCHANGED <<cluster, params, reqState, retTo, lookup, prev>>
    /\ UNCHANGED parseVars

\* set_desired_state_or_fail: one round of the while True loop
Poll ==
    /\ pc = "poll"
    /\ \/ /\ cluster.exists
          /\ Log("get", "-", "ok")
          /\ IF cluster.currentState = reqState
             THEN /\ ReturnInst(Handle(cluster.currentState))
                  /\ UNCHANGED remaining
             ELSE /\ inst' = Handle(cluster.currentState)
                  /\ remaining' = remaining - 1
                  /\ UNCHANGED changed
                  /\ IF remaining - 1 <= 0
                     THEN Raise("ValueError")
                     ELSE pc' = "sleep" /\ UNCHANGED <<msg, result>>
       \/ /\ ~cluster.exists
          /\ Log("get", "-", "404")
          /\ Raise("NotFound")
          /\ UNCHANGED <<inst, changed, remaining>>
       \/ /\ Log("get", "-", "error")
          /\ fail_json("could not retrieve unit")
          /\ UNCHANGED <<inst, changed, remaining>>
    /\ UNCHANGED <<cluster, params, reqState, retTo, lookup, prev>>
    /\ UNCHANGED parseVars

\* set_desired_state_or_fail: time.sleep(poll_secs)
Sleep ==
    /\ pc = "sleep"
    /\ Log("sleep", "-", "ok")
    /\ pc' = "poll"
    /\ UNCHANGED <<cluster, params, inst, changed, msg, result, reqState,
                   remaining, retTo, lookup, prev>>
    /\ UNCHANGED parseVars

\* StartBranch with 'present' handled as 'started'
StartBranch_presentStarts(state, i) ==
    IF state \in {"started", "restarted", "present"}
    THEN IF ~i.live THEN "create_launched"
         ELSE IF i.currentState # "launched" THEN "start"
         ELSE "already_started"
    ELSE "assert_fails"

\* unit(): the branch taken by "if state in ('started', 'restarted') ... else:
\* assert state == 'present' ..."
StartBranch(state, i) ==
    IF state \in {"started", "restarted"}
    THEN IF ~i.live THEN "create_launched"
         ELSE IF i.currentState # "launched" THEN "start"
         ELSE "already_started"
    ELSE IF state # "present" THEN "assert_fails"
         ELSE IF ~i.live THEN "create_loaded"
         ELSE "unchanged"

\* unit(): if state in ('started', 'restarted') ... else: assert state == 'present'
StartPhase ==
    /\ pc = "start_phase"
    /\ \/ /\ StartBranch(params.state, inst) = "create_launched"
          /\ reqState' = "launched"
          /\ pc' = "create_unit"
          /\ UNCHANGED <<retTo, msg, result>>
       \/ /\ StartBranch(params.state, inst) = "start"
          /\ reqState' = "launched"
          /\ retTo' = "start"
          /\ pc' = "set"
          /\ UNCHANGED <<msg, result>>
       \/ /\ StartBranch(params.state, inst) = "already_started"
          /\ exit_json("existing unit has already started")
          /\ UNCHANGED <<reqState, retTo>>
       \/ /\ StartBranch(params.state, inst) = "assert_fails"
          /\ Raise("AssertionError")
          /\ UNCHANGED <<reqState, retTo>>
       \/ /\ StartBranch(params.state, inst) = "create_loaded"
          /\ reqState' = "loaded"
          /\ pc' = "create_unit"
          /\ UNCHANGED <<retTo, msg, result>>
       \/ /\ StartBranch(params.state, inst) = "unchanged"
          /\ exit_json("existing unit state unchanged")
          /\ UNCHANGED <<reqState, retTo>>
    /\ UNCHANGED <<cluster, params, inst, changed, remaining, trace, lookup, prev>>
    /\ UNCHANGED parseVars

\* NumSources without "if text: n += 1"
NumSources_noText(p) ==
    (IF p.options THEN 1 ELSE 0) + (IF p.src THEN 1 ELSE 0)

\* create_unit_or_fail: n, the number of src/text/options given
NumSources(p) ==
    (IF p.options THEN 1 ELSE 0) + (IF p.src THEN 1 ELSE 0)
        + (IF p.text THEN 1 ELSE 0)

\* BadSourceCount without "(n == 0) or"
BadSourceCount_manyOnly(n) == n > 1

\* BadSourceCount without "or (n > 1)"
BadSourceCount_zeroOnly(n) == n = 0

\* create_unit_or_fail: if (n == 0) or (n > 1)
BadSourceCount(n) == (n = 0) \/ (n > 1)

\* create_unit_or_fail: the check of n and fleet.Unit(...), which reads src
CreateUnit ==
    /\ pc = "create_unit"
    /\ IF BadSourceCount(NumSources(params))
       THEN fail_json("one and only of {text, options, from_file} must be specified")
       ELSE \/ /\ params.src
               /\ fail_json("unable to create unit from_file")
            \/ /\ pc' = "create_call"
               /\ UNCHANGED <<msg, result>>
    /\ UNCHANGED <<cluster, params, inst, changed, reqState, remaining, retTo,
                   trace, lookup, prev>>
    /\ UNCHANGED parseVars

\* create_unit_or_fail: client.create_unit(name, inst), and unit() after it
CreateCall ==
    /\ pc = "create_call"
    /\ \/ /\ cluster' = [exists |-> TRUE, currentState |-> "inactive",
                         desiredState |-> reqState]
          /\ Log("create", reqState, "ok")
          /\ inst' = Handle("inactive")
          /\ changed' = TRUE
          /\ exit_json(IF reqState = "launched" THEN "unit created and started"
                       ELSE "unit created (but not started)")
       \/ /\ Log("create", reqState, "error")
          /\ fail_json("could not create unit")
          /\ UNCHANGED <<cluster, inst, changed>>
    /\ UNCHANGED <<params, reqState, remaining, retTo, lookup, prev>>
    /\ UNCHANGED parseVars

\* ------------------------------------------------------ fleet: parse_facts
\* Text is a sequence of one-character strings; a dict is a function.
IsSpace(c) == c \in {" ", "\t"}

\* str.split(sep) for a one-character sep: every occurrence separates
RECURSIVE SplitFrom(_, _, _, _, _)
SplitFrom(s, sep, i, cur, acc) ==
    IF i > Len(s) THEN Append(acc, cur)
    ELSE IF s[i] = sep THEN SplitFrom(s, sep, i + 1, <<>>, Append(acc, cur))
    ELSE SplitFrom(s, sep, i + 1, Append(cur, s[i]), acc)

SplitOn(s, sep) == SplitFrom(s, sep, 1, <<>>, <<>>)

RECURSIVE SkipSpace(_, _)
SkipSpace(s, i) ==
    IF i <= Len(s) /\ IsSpace(s[i]) THEN SkipSpace(s, i + 1) ELSE i

RECURSIVE SkipWord(_, _)
SkipWord(s, i) ==
    IF i <= Len(s) /\ ~IsSpace(s[i]) THEN SkipWord(s, i + 1) ELSE i

\* str.split(None, maxsplit): runs of whitespace separate, at most maxsplit
\* times; what is left then is the last item, its trailing whitespace kept.
\* A negative maxsplit is no limit.
RECURSIVE SplitWsFrom(_, _, _, _)
SplitWsFrom(s, i, maxcount, acc) ==
    LET b == SkipSpace(s, i)
        e == SkipWord(s, b)
    IN  IF b > Len(s) THEN acc
        ELSE IF maxcount = 0 THEN Append(acc, SubSeq(s, b, Len(s)))
        ELSE SplitWsFrom(s, e, maxcount - 1, Append(acc, SubSeq(s, b, e - 1)))

SplitWs(s, maxsplit) == SplitWsFrom(s, 1, maxsplit, <<>>)

\* str.lower() on the letters of the listing headers
LowerChar(c) ==
    CASE c = "A" -> "a" [] c = "B" -> "b" [] c = "C" -> "c" [] c = "D" -> "d"
      [] c = "E" -> "e" [] c = "H" -> "h" [] c = "I" -> "i" [] c = "L" -> "l"
      [] c = "M" -> "m" [] c = "N" -> "n" [] c = "O" -> "o" [] c = "P" -> "p"
      [] c = "S" -> "s" [] c = "T" -> "t" [] c = "U" -> "u" [] c = "V" -> "v"
      [] OTHER -> c

Lower(s) == [i \in 1..Len(s) |-> LowerChar(s[i])]

\* d[k] = v
Put(d, k, v) == (k :> v) @@ d

\* d.get(k, None) or {}
GetDict(d, k) == IF k \in DOMAIN d THEN d[k] ELSE <<>>

EmptyDict == <<>>

\* None, as a value of a unit record
NoneValue == <<"None">>

\* list-machines: the loop over row[2].split(','), giving the row's metadata
\* or the exception "k, v = kv.split('=')" raises
RECURSIVE ParseMetadata(_, _, _)
ParseMetadata(kvs, i, metadata) ==
    IF i > Len(kvs) THEN [exc |-> "none", metadata |-> metadata]
    ELSE LET kv == kvs[i] IN
         IF \A n \in 1..Len(kv) : kv[n] # "="
         THEN ParseMetadata(kvs, i + 1, metadata)
         ELSE IF Len(SplitOn(kv, "=")) # 2
         THEN [exc |-> "ValueError", metadata |-> metadata]
         ELSE ParseMetadata(kvs, i + 1,
                            Put(metadata, SplitOn(kv, "=")[1], SplitOn(kv, "=")[2]))

\* by_meta[k][v][id] = machine_data for every pair of the row's metadata
RECURSIVE IndexMetadata(_, _, _)
IndexMetadata(by_meta, keys, machine_data) ==
    IF keys = {} THEN by_meta
    ELSE LET k == CHOOSE x \in keys : TRUE
             v == machine_data.metadata[k]
             kmeta == GetDict(by_meta, k)
             vmeta == GetDict(kmeta, v)
         IN  IndexMetadata(
                 Put(by_meta, k, Put(kmeta, v, Put(vmeta, machine_data.id, machine_data))),
                 keys \ {k}, machine_data)

\* list-machines: the body of "for row in rows[1:]"; st is the state of the
\* loop: machines, by['ip'], by['meta'] and the exception raised, if any
MachineRow(st, line) ==
    LET row == SplitWs(line, 3) IN
    IF row = <<>> THEN st
    ELSE IF Len(row) < 2 THEN [st EXCEPT !.exc = "IndexError"]
    ELSE IF Len(row) < 3 THEN [st EXCEPT !.exc = "IndexError"]
    ELSE LET parsed == IF row[3] # <<>>
                       THEN ParseMetadata(SplitOn(row[3], ","), 1, EmptyDict)
                       ELSE [exc |-> "none", metadata |-> EmptyDict]
             machine_data == [id |-> row[1], ip |-> row[2],
                              metadata |-> parsed.metadata]
         IN  IF parsed.exc # "none" THEN [st EXCEPT !.exc = parsed.exc]
             ELSE [exc |-> "none",
                   machines |-> Put(st.machines, machine_data.id, machine_data),
                   by_ip |-> IF machine_data.ip # <<>>
                             THEN Put(st.by_ip, machine_data.ip,
                                      Put(GetDict(st.by_ip, machine_data.ip),
                                          machine_data.id, machine_data))
                             ELSE st.by_ip,
                   by_meta |-> IndexMetadata(st.by_meta,
                                             DOMAIN machine_data.metadata,
                                             machine_data)]

RECURSIVE MachineRows(_, _, _)
MachineRows(st, rows, i) ==
    IF i > Len(rows) \/ st.exc # "none" THEN st
    ELSE MachineRows(MachineRow(st, rows[i]), rows, i + 1)

\* parse_facts, command == 'list-machines'
ParseListMachines(text) ==
    LET rows == SplitOn(text, "\n")
        st0 == [exc |-> "none", machines |-> EmptyDict, by_ip |-> EmptyDict,
                by_meta |-> EmptyDict]
        st == IF Len(rows) > 1 THEN MachineRows(st0, rows, 2) ELSE st0
        base == [fleet_machines |-> st.machines,
                 fleet_machines_by |-> [ip |-> st.by_ip, meta |-> st.by_meta]]
    IN  [exc |-> st.exc,
         facts |-> IF Len(rows) > 1
                   THEN [fleet_num_machines |-> Cardinality(DOMAIN st.machines)] @@ base
                   ELSE base]

\* the field names parse_facts looks up in a unit record
K_hash == <<"h", "a", "s", "h">>

K_load == <<"l", "o", "a", "d">>

K_active == <<"a", "c", "t", "i", "v", "e">>

K_sub == <<"s", "u", "b">>

K_machine == <<"m", "a", "c", "h", "i", "n", "e">>

\* by_keys = ('load', 'active', 'sub', 'machine')
by_keys == <<K_load, K_active, K_sub, K_machine>>

\* dict(zip(header, row)): the pairs up to the shorter of the two, a later
\* pair replacing an earlier one with the same key
Zip(header, row) ==
    LET n == IF Len(header) < Len(row) THEN Len(header) ELSE Len(row)
        last(k) == CHOOSE i \in 1..n :
                       /\ header[i] = k
                       /\ \A j \in 1..n : header[j] = k => j <= i
    IN  [k \in {header[i] : i \in 1..n} |-> row[last(k)]]

\* "if v == '-' or (not v): unit_data[k] = None" for every item
Normalize(unit_data) ==
    [k \in DOMAIN unit_data |->
        IF unit_data[k] = <<"-">> \/ unit_data[k] = <<>> THEN NoneValue
        ELSE unit_data[k]]

\* by[by_key][v][unit_data['hash']] = unit_data for every by_key with a value
RECURSIVE IndexUnit(_, _, _)
IndexUnit(by, i, unit_data) ==
    IF i > Len(by_keys) THEN by
    ELSE LET v == unit_data[by_keys[i]]
             by_units == GetDict(by[i], v)
         IN  IF v # NoneValue
             THEN IndexUnit(
                     [by EXCEPT ![i] = Put(by[i], v,
                                           Put(by_units, unit_data[K_hash], unit_data))],
                     i + 1, unit_data)
             ELSE IndexUnit(by, i + 1, unit_data)

\* list-units: the body of "for row in rows[1:]"; st is the state of the loop:
\* units, by (one dict for each of by_keys) and the exception raised, if any
UnitRow(st, header, line) ==
    LET row == SplitWs(line, 7) IN
    IF row = <<>> THEN st
    ELSE LET unit_data == Normalize(Zip(header, row)) IN
         IF \E i \in 1..Len(by_keys) : by_keys[i] \notin DOMAIN unit_data
         THEN [st EXCEPT !.exc = "KeyError"]
         ELSE IF K_hash \notin DOMAIN unit_data
         THEN [st EXCEPT !.exc = "KeyError"]
         ELSE [exc |-> "none",
               units |-> Put(st.units, unit_data[K_hash], unit_data),
               by |-> IndexUnit(st.by, 1, unit_data)]

RECURSIVE UnitRows(_, _, _, _)
UnitRows(st, header, rows, i) ==
    IF i > Len(rows) \/ st.exc # "none" THEN st
    ELSE UnitRows(UnitRow(st, header, rows[i]), header, rows, i + 1)

\* parse_facts, command == 'list-units'
ParseListUnits(text) ==
    LET rows == SplitOn(text, "\n")
        st0 == [exc |-> "none", units |-> EmptyDict,
                by |-> <<EmptyDict, EmptyDict, EmptyDict, EmptyDict>>]
        header == LET h == SplitWs(rows[1], -1)
                  IN  [i \in 1..Len(h) |-> Lower(h[i])]
        st == IF Len(rows) > 1 THEN UnitRows(st0, header, rows, 2) ELSE st0
        base == [fleet_units |-> st.units,
                 fleet_units_by |-> [load |-> st.by[1], active |-> st.by[2],
                                     sub |-> st.by[3], machine |-> st.by[4]]]
    IN  [exc |-> st.exc,
         facts |-> IF Len(rows) > 1
                   THEN [fleet_num_units |-> Cardinality(DOMAIN st.units)] @@ base
                   ELSE base]

\* parse_facts(command, command_args, output)
parse_facts(cmd, text) ==
    IF cmd = "list-machines" THEN ParseListMachines(text)
    ELSE IF cmd = "list-units" THEN ParseListUnits(text)
    ELSE [exc |-> "none", facts |-> EmptyDict]

\* ------------------------------------------------- fleet: listing inputs
RECURSIVE Join(_, _)
Join(items, sep) ==
    IF items = <<>> THEN <<>>
    ELSE IF Len(items) = 1 THEN items[1]
    ELSE items[1] \o sep \o Join(Tail(items), sep)

\* MACHINE IP METADATA
MachineHeader ==
    <<"M", "A", "C", "H", "I", "N", "E", " ", "I", "P", " ",
      "M", "E", "T", "A", "D", "A", "T", "A">>

MachineIds == {<<"a">>, <<"b">>}

MachineIps == {<<"1">>, <<"2">>}

\* k=v   k,j=w   k=a=b
MachineMetadata ==
    {<<"k", "=", "v">>, <<"k", ",", "j", "=", "w">>, <<"k", "=", "a", "=", "b">>}

MachineLines ==
    {Join(<<i, p, m>>, <<" ">>) : i \in MachineIds, p \in MachineIps, m \in MachineMetadata}
    \cup {Join(<<i, p>>, <<" ">>) \o t : i \in MachineIds, p \in MachineIps,
                                         t \in {<<>>, <<" ">>}}
    \cup {<<>>, <<" ">>, <<"a">>,
          <<" ", "a", " ", " ", "1", "\t", "k", "=", "v">>,
          <<"a", " ", "1", " ", "k", "=", "v", " ", "x">>,
          <<"a", " ", "1", " ", "k", "=", "v", " ", "x", " ", "y", " ">>}

\* HASH UNIT LOAD ACTIVE SUB MACHINE
UnitHeader ==
    <<"H", "A", "S", "H", " ", "U", "N", "I", "T", " ", "L", "O", "A", "D", " ",
      "A", "C", "T", "I", "V", "E", " ", "S", "U", "B", " ",
      "M", "A", "C", "H", "I", "N", "E">>

UnitHeaders == {UnitHeader, SubSeq(UnitHeader, 1, 9)}

Dash == <<"-">>

\* load, active, sub, machine of a well-formed row: no field, one field or
\* every field is "-"
UnitFields ==
    {f \in {<<"l">>, Dash} \X {<<"a">>, Dash} \X {<<"s">>, Dash} \X {<<"m">>, Dash} :
        Cardinality({i \in 1..4 : f[i] = Dash}) \in {0, 1, 4}}

UnitLines ==
    {Join(<<h, <<"u">>>> \o f, <<" ">>) : h \in {<<"h">>, <<"g">>}, f \in UnitFields}
    \cup {<<>>, <<"h">>, <<"h", " ", "u", " ", "l">>,
          <<"h", " ", "u", " ", "l", " ", "a", " ", "s", " ", "m", " ", "x">>,
          <<"h", " ", "u", " ", "l", " ", "a", " ", "s", " ", "m", " ", "x",
            " ", "y", " ", "z">>}

\* the texts of a header line and at most MaxRows further lines, and the
\* empty text
Texts(headers, lines) ==
    {<<>>} \cup
    UNION {{Join(<<h>> \o rs, <<"\n">>) : h \in headers, rs \in [1..n -> lines]} :
           n \in 0..MaxRows}

Commands == {"list-machines", "list-units", "debug-info"}

Outputs(cmd) ==
    IF cmd = "list-machines" THEN Texts({MachineHeader}, MachineLines)
    ELSE IF cmd = "list-units" THEN Texts(UnitHeaders, UnitLines)
    ELSE {<<>>, <<"o", "k">>, <<"o", "k", "\n", "a", " ", "1">>}

\* --------------------------------------------------------- fleet: main
\* argument_spec command choices
MainCommands ==
    {"cat", "debug-info", "destroy", "journal", "list-machines", "list-units",
     "load", "start", "status", "stop", "submit", "unload", "verify"}

\* main(): the commands the unit argument is passed to
UnitCommands ==
    {"submit", "verify", "start", "stop", "status", "destroy", "load", "unload",
     "cat", "journal"}

\* nothing handed to exit_json or fail_json yet; keys are the keyword
\* arguments of the call
NoReport ==
    [kind |-> "none", keys |-> {}, msg |-> "-", returncode |-> 0,
     output |-> <<>>, ansible_facts |-> <<>>]

\* what the fleetctl process may print: for the listings, a text of the header
\* and at most one more line
ProcessOutputs(cmd) == {o \in Outputs(cmd) : Len(SplitOn(o, "\n")) <= 2}

\* the exit statuses of the fleetctl process
ReturnCodes == {0, 1}

\* main(): "if command in (...): if not unit: module.fail_json(...)"
MainCheckUnit ==
    /\ mainpc = "check_unit"
    /\ IF command \in UnitCommands /\ ~unit
       THEN /\ report' = [NoReport EXCEPT !.kind = "fail", !.keys = {"msg"},
                                          !.msg = "unit argument required"]
            /\ mainpc' = "done"
       ELSE /\ mainpc' = "run"
            /\ UNCHANGED report
    /\ UNCHANGED <<command, output, facts, raised, unit, invoked, returncode>>
    /\ UNCHANGED unitVars

\* RunProcess with the output of a failed run handed on to parse_facts
RunProcess_parsesFailedRun ==
    /\ mainpc = "run"
    /\ invoked' = TRUE
    /\ \/ /\ \E rc \in ReturnCodes, out \in ProcessOutputs(command) :
                /\ returncode' = rc
                /\ output' = out
          /\ mainpc' = "parse"
          /\ UNCHANGED report
       \/ /\ report' = [NoReport EXCEPT !.kind = "exception", !.msg = "OSError"]
          /\ mainpc' = "done"
          /\ UNCHANGED <<returncode, output>>
    /\ UNCHANGED <<command, facts, raised, unit>>
    /\ UNCHANGED unitVars

\* main(): output = subprocess.check_output(args), and the handler of
\* CalledProcessError; the binary may also fail to start (OSError, which
\* nothing catches)
RunProcess ==
    /\ mainpc = "run"
    /\ invoked' = TRUE
    /\ \/ /\ \E rc \in ReturnCodes, out \in ProcessOutputs(command) :
                /\ returncode' = rc
                /\ output' = out
                /\ IF rc = 0
                   THEN /\ mainpc' = "parse"
                        /\ UNCHANGED report
                   ELSE /\ report' = [NoReport EXCEPT
                                         !.kind = "fail",
                                         !.keys = {"returncode", "output", "msg"},
                                         !.msg = "CalledProcessError",
                                         !.returncode = rc,
                                         !.output = out]
                        /\ mainpc' = "done"
       \/ /\ report' = [NoReport EXCEPT !.kind = "exception", !.msg = "OSError"]
          /\ mainpc' = "done"
          /\ UNCHANGED <<returncode, output>>
    /\ UNCHANGED <<command, facts, raised, unit>>
    /\ UNCHANGED unitVars

\* main(): ansible_facts = parse_facts(command, command_args, output) and
\* module.exit_json(changed=True, msg='OK', output=..., ansible_facts=...)
ParseFacts ==
    /\ raised = "none"
    /\ mainpc = "parse"
    /\ LET r == parse_facts(command, output) IN
          /\ raised' = IF r.exc = "none" THEN "returned" ELSE r.exc
          /\ facts' = IF r.exc = "none" THEN r.facts ELSE facts
          /\ report' = IF r.exc = "none"
                       THEN [NoReport EXCEPT
                               !.kind = "exit",
                               !.keys = {"changed", "msg", "output", "ansible_facts"},
                               !.msg = "OK",
                               !.output = output,
                               !.ansible_facts = r.facts]
                       ELSE [NoReport EXCEPT !.kind = "exception", !.msg = r.exc]
    /\ mainpc' = "done"
    /\ UNCHANGED <<command, output, unit, invoked, returncode>>
    /\ UNCHANGED unitVars

Init ==
    /\ cluster = NoUnit
    /\ params = NoParams
    /\ pc = "idle"
    /\ inst = NoInst
    /\ changed = FALSE
    /\ msg = "None"
    /\ result = "none"
    /\ reqState = "-"
    /\ remaining = 0
    /\ retTo = "-"
    /\ trace = <<>>
    /\ lookup = "nolookup"
    /\ prev = "-"
    /\ command = "-"
    /\ output = <<>>
    /\ facts = <<>>
    /\ raised = "none"
    /\ unit = FALSE
    /\ invoked = FALSE
    /\ returncode = 0
    /\ mainpc = "none"
    /\ report = NoReport

Next ==
    \/ EnvConverge
    \/ EnvDestroy
    \/ EnvCreate
    \/ Invoke
    \/ ProcessExit
    \/ UnitEntry
    \/ AbsentGet
    \/ AbsentDestroy
    \/ Lookup
    \/ StopPhase
    \/ SetDesiredState
    \/ Poll
    \/ Sleep
    \/ StartPhase
    \/ CreateUnit
    \/ CreateCall

Spec == Init /\ [][Next]_vars

InitParse ==
    /\ cluster = NoUnit
    /\ params = NoParams
    /\ pc = "idle"
    /\ inst = NoInst
    /\ changed = FALSE
    /\ msg = "None"
    /\ result = "none"
    /\ reqState = "-"
    /\ remaining = 0
    /\ retTo = "-"
    /\ trace = <<>>
    /\ lookup = "nolookup"
    /\ prev = "-"
    /\ command \in Commands
    /\ output \in Outputs(command)
    /\ facts = <<>>
    /\ raised = "none"
    /\ unit = FALSE
    /\ invoked = TRUE
    /\ returncode = 0
    /\ mainpc = "parse"
    /\ report = NoReport

NextParse == ParseFacts

SpecParse == InitParse /\ [][NextParse]_vars

\* main() of cloud/fleet.py from its start, for every command
InitMain ==
    /\ cluster = NoUnit
    /\ params = NoParams
    /\ pc = "idle"
    /\ inst = NoInst
    /\ changed = FALSE
    /\ msg = "None"
    /\ result = "none"
    /\ reqState = "-"
    /\ remaining = 0
    /\ retTo = "-"
    /\ trace = <<>>
    /\ lookup = "nolookup"
    /\ prev = "-"
    /\ command \in MainCommands
    /\ output = <<>>
    /\ facts = <<>>
    /\ raised = "none"
    /\ unit \in BOOLEAN
    /\ invoked = FALSE
    /\ returncode = 0
    /\ mainpc = "check_unit"
    /\ report = NoReport

NextMain ==
    \/ MainCheckUnit
    \/ RunProcess
    \/ ParseFacts

SpecMain == InitMain /\ [][NextMain]_vars

\* -------------------------------------------------------------- properties
Mutating(e) == e.op \in {"create", "set", "destroy"}

NoMutatingCall == \A i \in DOMAIN trace : ~Mutating(trace[i])

NumCalls(op) == Cardinality({i \in DOMAIN trace : trace[i].op = op})

\* no remote call of the invocation was answered by an API error other than 404
NoRemoteError == \A i \in DOMAIN trace : trace[i].res \notin {"error", "refused"}

LastEvent == trace[Len(trace)]

\* the caller supplied exactly one of src, text, options
ExactlyOneSource ==
    Cardinality({x \in {"src", "text", "options"} : params[x]}) = 1

\* C1: state=stopped on a unit the lookup did not find ends in exit_json with
\* changed=false and the message "unit did not exist", with no create,
\* set-desired-state or destroy call; never a failure or an exception.
C1_StoppedAbsentReportsUnchanged ==
    (pc = "done" /\ params.state = "stopped" /\ lookup = "notfound")
        => /\ result = "exit"
           /\ ~changed
           /\ msg = "unit did not exist"
           /\ NoMutatingCall

\* C2: state=restarted on a unit found launched: every invocation that ends in
\* exit_json issued set-desired-state(inactive) and, after it,
\* set-desired-state(launched); on a unit not found, it created the unit with
\* desired state launched.
C2_RestartedStopsThenStarts ==
    (pc = "done" /\ params.state = "restarted" /\ result = "exit")
        => /\ lookup = "launched" =>
                \E i, j \in DOMAIN trace :
                    /\ i < j
                    /\ trace[i] = Ev("set", "inactive", "ok")
                    /\ trace[j] = Ev("set", "launched", "ok")
           /\ lookup = "notfound" =>
                \E i \in DOMAIN trace : trace[i] = Ev("create", "launched", "ok")

\* C3: state=started on a unit the lookup did not find, with exactly one of
\* src/text/options: unless the remote answers an error or src cannot be read,
\* the invocation issues exactly one create call (after the lookup, nothing
\* else) and ends in exit_json with changed=true.  state=started on a unit found
\* launched issues no call but the lookup and ends in exit_json with
\* changed=false.
C3_StartedCreatesThenIdempotent ==
    (pc = "done" /\ params.state = "started")
        => /\ ( /\ lookup = "notfound"
                /\ ExactlyOneSource
                /\ NoRemoteError
                /\ msg # "unable to create unit from_file" )
              => /\ result = "exit"
                 /\ changed
                 /\ NumCalls("create") = 1
                 /\ trace = <<Ev("get", "-", "404"), Ev("create", "launched", "ok")>>
           /\ lookup = "launched"
              => /\ result = "exit"
                 /\ ~changed
                 /\ trace = <<Ev("get", "-", "ok")>>

\* C3 witness: a started invocation that follows one that created the unit finds
\* it launched and reports changed=false.
C3_Witness ==
    /\ pc = "done"
    /\ prev = "started:created"
    /\ params.state = "started"
    /\ lookup = "launched"
    /\ result = "exit"
    /\ ~changed

\* C4: state=present on a unit the lookup found, whatever its currentState, ends
\* in exit_json with changed=false and issues no call but the lookup; no step of
\* such an invocation changes the unit's record in the cluster.
C4_PresentExistingState ==
    (pc = "done" /\ params.state = "present" /\ lookup \in UnitStates)
        => /\ result = "exit"
           /\ ~changed
           /\ msg = "existing unit state unchanged"
           /\ trace = <<Ev("get", "-", "ok")>>

\* C4, the frame: a step of such an invocation leaves the cluster as it is.
C4_PresentExistingFrame ==
    (params.state = "present" /\ lookup \in UnitStates /\ pc' # pc)
        => cluster' = cluster

\* C4: both parts, in every state and at every step.
C4_PresentExistingUntouched ==
    [](C4_PresentExistingState) /\ [][C4_PresentExistingFrame]_vars

\* C4 witness: the second of two present invocations in a row on a launched unit.
C4_Witness ==
    /\ pc = "done"
    /\ prev = "present:unchanged"
    /\ params.state = "present"
    /\ lookup = "launched"
    /\ cluster.exists /\ cluster.currentState = "launched"
    /\ result = "exit"
    /\ ~changed

\* C5: state=absent with a name.  If the lookup found the unit, exactly one
\* destroy is issued, and when it is accepted the invocation ends in exit_json
\* with changed=true and the unit has no record in the cluster; an invocation
\* that ends in exit_json after finding the unit reports changed=true.  If the
\* lookup answered not-found, no destroy is issued and the invocation ends in
\* exit_json with changed=false.
C5_AbsentDestroysOnce ==
    (pc = "done" /\ params.state = "absent" /\ params.name)
        => /\ lookup \in UnitStates
              => /\ NumCalls("destroy") = 1
                 /\ LastEvent = Ev("destroy", "-", "ok")
                       => (result = "exit" /\ changed /\ ~cluster.exists)
                 /\ result = "exit" => (changed /\ ~cluster.exists)
           /\ lookup = "notfound"
              => /\ NumCalls("destroy") = 0
                 /\ result = "exit"
                 /\ ~changed

\* C5 witness: the unit was found, destroyed, and has no record.
C5_Witness ==
    /\ pc = "done"
    /\ params.state = "absent"
    /\ lookup \in UnitStates
    /\ LastEvent = Ev("destroy", "-", "ok")
    /\ result = "exit"
    /\ changed
    /\ ~cluster.exists

\* a unit has to be created: the state asks for one and no unit was found
NeedsCreate ==
    /\ params.state \in {"present", "started", "restarted"}
    /\ lookup \in {"notfound", "nolookup"}

ValidationError == "one and only of {text, options, from_file} must be specified"

PollExhausted ==
    /\ pc = "done"
    /\ ~params.oneway
    /\ remaining = 0
    /\ trace # <<>>
    /\ LastEvent = Ev("get", "-", "ok")
    /\ \E i \in DOMAIN trace : trace[i] = Ev("set", reqState, "ok")
    /\ inst.live /\ inst.currentState # reqState

\* C9: when every one of the poll_retry fetches after an accepted
\* set-desired-state saw a state other than the target, the invocation ends in
\* a fail_json result (not an exception) that reports the convergence timeout.
C9_PollTimeoutIsFailJson ==
    PollExhausted => (result = "fail" /\ msg = "convergence timeout")

\* C10: a not-found answer to a unit lookup, the re-fetches of the polling loop
\* included, never ends the invocation in a failure or an exception.
C10_NotFoundNeverFails ==
    (pc = "done" /\ trace # <<>> /\ LastEvent = Ev("get", "-", "404"))
        => result = "exit"

\* the lines after the header line
DataLines(text) ==
    LET rows == SplitOn(text, "\n") IN {rows[i] : i \in 2..Len(rows)}

\* a line that holds an id and an ip and nothing else but whitespace
IdIpOnly(line) == Len(SplitWs(line, 3)) = 2

\* C6: list-machines, on a text whose data rows hold an id and an ip only (with
\* or without trailing whitespace) or are empty: parse_facts does not raise,
\* every such row's machine is in fleet_machines with an empty metadata map and
\* is indexed under its ip, and the by-metadata index has no entry.
C6_RowWithoutMetadata ==
    ( /\ command = "list-machines"
      /\ raised # "none"
      /\ \E l \in DataLines(output) : IdIpOnly(l)
      /\ \A l \in DataLines(output) : IdIpOnly(l) \/ SplitWs(l, 3) = <<>> )
        => /\ raised = "returned"
           /\ facts.fleet_machines_by.meta = EmptyDict
           /\ \A l \in DataLines(output) :
                 IdIpOnly(l) =>
                    LET id == SplitWs(l, 3)[1]
                        ip == SplitWs(l, 3)[2]
                    IN  /\ id \in DOMAIN facts.fleet_machines
                        /\ facts.fleet_machines[id].id = id
                        /\ facts.fleet_machines[id].metadata = EmptyDict
                        /\ ip \in DOMAIN facts.fleet_machines_by.ip
                        /\ id \in DOMAIN facts.fleet_machines_by.ip[ip]

\* C7: parse_facts raises no exception, whatever the number of items in the
\* data rows of a list-machines or list-units text.
C7_ParserNeverRaises ==
    (command \in {"list-machines", "list-units"} /\ raised # "none")
        => raised = "returned"

\* C11: state=absent: a not-found answer to the destroy call (the unit was
\* removed by another party between the lookup that found it and the destroy)
\* ends the invocation in exit_json, not in a failure.
C11_DestroyNotFoundSucceeds ==
    ( /\ pc = "done"
      /\ params.state = "absent"
      /\ lookup \in UnitStates
      /\ LastEvent = Ev("destroy", "-", "404") )
        => result = "exit"

\* C12: an invocation with no name (missing or empty), whatever the requested
\* state, ends in fail_json with no remote call made; in particular no create
\* call is issued.
C12_MissingNameFailsBeforeAnyCall ==
    (pc = "done" /\ ~params.name)
        => /\ result = "fail"
           /\ trace = <<>>

\* the items of a row after the header: id, ip and what follows them
MachineItems(line) == SplitWs(line, 3)

\* a comma-separated list of key=value pairs, each with one "=" and a key
KeyValuePairs(s) ==
    LET kvs == SplitOn(s, ",") IN
    \A n \in 1..Len(kvs) :
        /\ Len(SplitOn(kvs[n], "=")) = 2
        /\ SplitOn(kvs[n], "=")[1] # <<>>
        /\ \A c \in 1..Len(kvs[n]) : ~IsSpace(kvs[n][c])

\* a well-formed data row: id, ip and, optionally, key=value metadata
WellFormedMachineLine(line) ==
    \/ Len(MachineItems(line)) = 2
    \/ Len(MachineItems(line)) = 3 /\ KeyValuePairs(MachineItems(line)[3])

\* the positions of the data rows of a listing: the non-blank lines after the
\* header line
MachineRowsOf(text) ==
    LET rows == SplitOn(text, "\n") IN
    {i \in 2..Len(rows) : MachineItems(rows[i]) # <<>>}

\* a header line followed by well-formed data rows with distinct ids
WellFormedMachineListing(text) ==
    LET rows == SplitOn(text, "\n") IN
    /\ text # <<>>
    /\ rows[1] = MachineHeader
    /\ \A i \in MachineRowsOf(text) : WellFormedMachineLine(rows[i])
    /\ \A i, j \in MachineRowsOf(text) :
          MachineItems(rows[i])[1] = MachineItems(rows[j])[1] => i = j

\* C13: list-machines on a header line followed by N >= 0 well-formed data rows
\* with distinct ids: parse_facts returns, fleet_machines holds N records,
\* fleet_num_machines is present and equals N, and every key=value pair of a
\* row is in that machine's metadata map and in the by-metadata index under
\* [key][value] with that machine's id.
C13_WellFormedMachines ==
    ( /\ command = "list-machines"
      /\ raised # "none"
      /\ WellFormedMachineListing(output) )
        => LET rows == SplitOn(output, "\n")
               N == Cardinality(MachineRowsOf(output))
           IN  /\ raised = "returned"
               /\ Cardinality(DOMAIN facts.fleet_machines) = N
               /\ "fleet_num_machines" \in DOMAIN facts
               /\ facts.fleet_num_machines = N
               /\ \A i \in MachineRowsOf(output) :
                     LET it == MachineItems(rows[i])
                         id == it[1]
                         kvs == IF Len(it) = 3 THEN SplitOn(it[3], ",") ELSE <<>>
                     IN  /\ id \in DOMAIN facts.fleet_machines
                         /\ \A n \in 1..Len(kvs) :
                               LET k == SplitOn(kvs[n], "=")[1]
                                   v == SplitOn(kvs[n], "=")[2]
                               IN  /\ k \in DOMAIN facts.fleet_machines[id].metadata
                                   /\ facts.fleet_machines[id].metadata[k] = v
                                   /\ k \in DOMAIN facts.fleet_machines_by.meta
                                   /\ v \in DOMAIN facts.fleet_machines_by.meta[k]
                                   /\ id \in DOMAIN facts.fleet_machines_by.meta[k][v]

\* the positions of the data rows of a unit listing: the non-blank lines after
\* the header line
UnitRowsOf(text) ==
    LET rows == SplitOn(text, "\n") IN
    {i \in 2..Len(rows) : SplitWs(rows[i], 7) # <<>>}

\* the six-column header followed by rows of six items each
WellFormedUnitListing(text) ==
    LET rows == SplitOn(text, "\n") IN
    /\ text # <<>>
    /\ rows[1] = UnitHeader
    /\ \A i \in UnitRowsOf(text) : Len(SplitWs(rows[i], 7)) = 6

\* the secondary index of the facts for the n-th of load, active, sub, machine
UnitIndex(f, n) ==
    CASE n = 1 -> f.fleet_units_by.load
      [] n = 2 -> f.fleet_units_by.active
      [] n = 3 -> f.fleet_units_by.sub
      [] n = 4 -> f.fleet_units_by.machine

\* the name of the n-th column of a unit listing, as a key of a unit record
UnitColumn(n) ==
    CASE n = 1 -> K_hash
      [] n = 2 -> <<"u", "n", "i", "t">>
      [] n = 3 -> K_load
      [] n = 4 -> K_active
      [] n = 5 -> K_sub
      [] n = 6 -> K_machine

\* no later row of the listing has the hash of row i: the unit's record is
\* made from row i
LastRowOfUnit(text, i) ==
    LET rows == SplitOn(text, "\n") IN
    \A j \in UnitRowsOf(text) :
        j > i => SplitWs(rows[j], 7)[1] # SplitWs(rows[i], 7)[1]

\* C14: list-units on the six-column header followed by rows of six items:
\* parse_facts returns; every field whose raw value is "-" in the row a unit's
\* record is made from is None in that record; and for each of load, active, sub, machine, a
\* unit whose field is None is under no key of that index, while a unit whose
\* field has a value is under that value and under no other.
C14_DashIsNullAndUnindexed ==
    ( /\ command = "list-units"
      /\ raised # "none"
      /\ WellFormedUnitListing(output) )
        => LET rows == SplitOn(output, "\n") IN
           /\ raised = "returned"
           /\ \A i \in UnitRowsOf(output) :
                 LET row == SplitWs(rows[i], 7) IN
                 /\ row[1] \in DOMAIN facts.fleet_units
                 /\ \A c \in 2..6 :
                       (row[c] = Dash /\ LastRowOfUnit(output, i))
                           => facts.fleet_units[row[1]][UnitColumn(c)] = NoneValue
           /\ \A h \in DOMAIN facts.fleet_units : \A n \in 1..4 :
                 LET v == facts.fleet_units[h][UnitColumn(n + 2)]
                     idx == UnitIndex(facts, n)
                 IN  \A w \in DOMAIN idx :
                        h \in DOMAIN idx[w] <=> (v # NoneValue /\ w = v)
           /\ \A h \in DOMAIN facts.fleet_units : \A n \in 1..4 :
                 LET v == facts.fleet_units[h][UnitColumn(n + 2)] IN
                 v # NoneValue => v \in DOMAIN UnitIndex(facts, n)

\* the remote action a failure message names: "could not <action> unit ..."
ActionNamed(m) ==
    CASE m = "could not destroy unit" -> "destroy"
      [] m = "could not retrieve unit" -> "get"
      [] m = "could not create unit" -> "create"
      [] m = "could not set state" -> "set"
      [] OTHER -> "-"

\* C15: a remote call (lookup, set-desired-state, create or destroy) answered
\* with an error other than not-found is the last remote call of the
\* invocation, which ends in fail_json (never exit_json) with a message that
\* names the action that failed: the call that was answered with the error or,
\* for state=absent, the destroy the invocation was asked for.
C15_RemoteErrorAborts ==
    \A i \in DOMAIN trace :
        trace[i].res = "error"
            => /\ i = Len(trace)
               /\ pc = "done"
               /\ result = "fail"
               /\ \/ ActionNamed(msg) = trace[i].op
                  \/ params.state = "absent" /\ ActionNamed(msg) = "destroy"

\* C16: state=stopped on a unit the lookup found.  Found launched:
\* set-desired-state(inactive) is issued and, unless the remote answers an
\* error or the unit never reaches inactive, the invocation ends in exit_json
\* with changed=true, after polling when oneway is unset.  Found in another
\* state: no mutating call, exit_json with changed=false.  In neither case is
\* there a create, a destroy or a set-desired-state(launched).
C16_StoppedExisting ==
    (pc = "done" /\ params.state = "stopped" /\ lookup \in UnitStates)
        => /\ lookup = "launched"
              => /\ \E i \in DOMAIN trace : trace[i].op = "set" /\ trace[i].arg = "inactive"
                 /\ ( /\ Ev("set", "inactive", "ok") \in {trace[i] : i \in DOMAIN trace}
                      /\ \/ params.oneway
                         \/ /\ LastEvent = Ev("get", "-", "ok")
                            /\ inst.currentState = "inactive" )
                    => (result = "exit" /\ changed)
           /\ lookup # "launched"
              => (NoMutatingCall /\ result = "exit" /\ ~changed)
           /\ \A i \in DOMAIN trace :
                 /\ trace[i].op \notin {"create", "destroy"}
                 /\ trace[i].op = "set" => trace[i].arg = "inactive"

\* C17: every create call carries the desired state loaded when the requested
\* state is present and launched when it is started or restarted, and is issued
\* after the lookup of the invocation answered not-found (never for a unit the
\* lookup found); state=present issues no set-desired-state(launched) and no
\* create with launched.
C17_CreateCarriesRequestedState ==
    /\ \A i \in DOMAIN trace :
          trace[i].op = "create"
              => /\ params.state \in {"present", "started", "restarted"}
                 /\ trace[i].arg = IF params.state = "present" THEN "loaded"
                                   ELSE "launched"
                 /\ lookup = "notfound"
                 /\ \E j \in 1..(i - 1) : trace[j] = Ev("get", "-", "404")
    /\ params.state = "present"
          => \A i \in DOMAIN trace :
                ~(trace[i].op \in {"set", "create"} /\ trace[i].arg = "launched")

\* C18: a create call is issued only when exactly one of src, text, options is
\* given; when a unit has to be created and none or several of them are given,
\* the invocation ends in fail_json, issues no create call and does not report
\* changed=true.
C18_CreateNeedsExactlyOneSource ==
    /\ (\E i \in DOMAIN trace : trace[i].op = "create") => ExactlyOneSource
    /\ (pc = "done" /\ NeedsCreate /\ ~ExactlyOneSource)
          => /\ result = "fail"
             /\ NumCalls("create") = 0
             /\ ~changed

\* C18 witness: state=present, the unit not found, none of src/text/options:
\* the invocation fails without a create call.
C18_Witness ==
    /\ pc = "done"
    /\ params.state = "present"
    /\ ~params.src /\ ~params.text /\ ~params.options
    /\ lookup = "notfound"
    /\ result = "fail"
    /\ NumCalls("create") = 0
    /\ ~changed

\* the events that follow the set-desired-state call at position i of the
\* trace, up to the next set-desired-state call or the end of the trace
PollEvents(i) ==
    {j \in (i + 1)..Len(trace) : \A k \in (i + 1)..j : trace[k].op # "set"}

\* the remote calls of the invocation so far (a sleep is no call)
RemoteCalls == {i \in DOMAIN trace : trace[i].op # "sleep"}

\* the place of a step of unit() in the order the code runs through
Rank(p) ==
    CASE p = "unit" -> 1
      [] p \in {"lookup", "absent_get"} -> 2
      [] p \in {"stop_phase", "absent_destroy"} -> 3
      [] p = "start_phase" -> 4
      [] p \in {"set", "create_unit"} -> 5
      [] p \in {"poll", "create_call"} -> 6
      [] p = "sleep" -> 7
      [] OTHER -> 8

\* C19, the polling loop: after an accepted set-desired-state with oneway
\* unset, what follows is fetch, sleep, fetch, ...: at most poll_retry fetches,
\* one sleep between two consecutive fetches, and a fetch, not a sleep, as the
\* last event once the loop has ended.  The remote calls of an invocation are
\* at most the lookup and two set-desired-state calls with poll_retry fetches
\* each.
C19_PollLoopState ==
    /\ \A i \in DOMAIN trace :
          (trace[i].op = "set" /\ trace[i].res = "ok" /\ ~params.oneway)
              => /\ \A j \in PollEvents(i) :
                       trace[j].op = IF (j - i) % 2 = 1 THEN "get" ELSE "sleep"
                 /\ Cardinality({j \in PollEvents(i) : trace[j].op = "get"})
                       <= params.poll_retry
                 /\ ( \/ pc \notin {"poll", "sleep"}
                      \/ \E j \in (i + 1)..Len(trace) : trace[j].op = "set" )
                       => Cardinality(PollEvents(i)) % 2 = 1
    /\ Cardinality(RemoteCalls) <= 1 + 2 * (1 + params.poll_retry)

\* C19, termination: a step of the module either makes a remote call or
\* sleeps (which the bound above allows finitely often) or moves on in the
\* code without a way back.
C19_PollLoopProgress ==
    (pc \notin {"idle", "done"} /\ pc' # pc)
        => \/ Len(trace') = Len(trace) + 1
           \/ trace' = trace /\ Rank(pc') > Rank(pc)

\* C19: both parts, in every state and at every step.
C19_PollingIsBounded ==
    [](C19_PollLoopState) /\ [][C19_PollLoopProgress]_vars

\* C19 witness: with poll_retry > 1, a loop that used all its fetches, a sleep
\* before each but the first, and ended after the last fetch.
C19_Witness ==
    /\ pc = "done"
    /\ ~params.oneway
    /\ params.poll_retry > 1
    /\ remaining = 0
    /\ trace # <<>>
    /\ LastEvent = Ev("get", "-", "ok")
    /\ NumCalls("sleep") = params.poll_retry - 1
    /\ \E i \in DOMAIN trace :
          /\ trace[i] = Ev("set", reqState, "ok")
          /\ Cardinality(PollEvents(i)) = 2 * params.poll_retry - 1

\* the accepted calls of the invocation that set a desired state
DesiredStateMutations ==
    {i \in DOMAIN trace : trace[i].op \in {"set", "create"} /\ trace[i].res = "ok"}

\* C20: with oneway unset, an invocation that set a desired state (by
\* set-desired-state or by a create) and ends in exit_json has fetched the unit
\* after the last such call, and its last fetch saw the unit's currentState
\* equal to the state that call asked for.
C20_SuccessOnlyAfterConvergence ==
    ( /\ pc = "done"
      /\ result = "exit"
      /\ ~params.oneway
      /\ DesiredStateMutations # {} )
        => LET last == CHOOSE i \in DesiredStateMutations :
                           \A j \in DesiredStateMutations : j <= i
           IN  /\ last < Len(trace)
               /\ LastEvent = Ev("get", "-", "ok")
               /\ inst.live
               /\ inst.currentState = trace[last].arg

\* C21: with oneway set, no get-unit call and no sleep follows a
\* set-desired-state call, the invocation does not end in the convergence
\* timeout, and an invocation whose set-desired-state was accepted (every
\* remote call of it answered ok) ends in exit_json with changed=true.
C21_OnewayNeverPolls ==
    params.oneway
        => /\ \A i, j \in DOMAIN trace :
                 (i < j /\ trace[i].op = "set")
                     => trace[j].op \notin {"get", "sleep"}
           /\ pc \notin {"poll", "sleep"}
           /\ ~(pc = "done" /\ msg \in {"ValueError", "convergence timeout"})
           /\ ( /\ pc = "done"
                /\ \E i \in DOMAIN trace : trace[i].op = "set"
                /\ \A i \in DOMAIN trace : trace[i].res = "ok" )
                 => (result = "exit" /\ changed)

\* the position of the first "=" of a metadata segment that has one
FirstEq(kv) ==
    CHOOSE n \in 1..Len(kv) : kv[n] = "=" /\ \A m \in 1..(n - 1) : kv[m] # "="

\* no later row of the listing has the id of row i: the machine's record is
\* made from row i
LastRowOfMachine(text, i) ==
    LET rows == SplitOn(text, "\n") IN
    \A j \in MachineRowsOf(text) :
        j > i => MachineItems(rows[j])[1] # MachineItems(rows[i])[1]

\* C22: list-machines on rows that have an id, an ip and metadata: parse_facts
\* returns, and every comma-separated segment of a row's metadata that has an
\* "=" is split on its first "=" only: the key before it maps to all that
\* follows it ('k=a=b' gives k: 'a=b') in the machine's metadata and the id is
\* in the by-metadata index under that key and value; a segment without "="
\* adds no key and does not keep the other segments of the row from being read.
C22_SplitOnFirstEquals ==
    ( /\ command = "list-machines"
      /\ raised # "none"
      /\ output # <<>>
      /\ \A i \in MachineRowsOf(output) :
            Len(MachineItems(SplitOn(output, "\n")[i])) >= 3 )
        => LET rows == SplitOn(output, "\n") IN
           /\ raised = "returned"
           /\ \A i \in MachineRowsOf(output) :
                 LET id == MachineItems(rows[i])[1]
                     kvs == SplitOn(MachineItems(rows[i])[3], ",")
                 IN  \A n \in 1..Len(kvs) :
                        IF \E c \in 1..Len(kvs[n]) : kvs[n][c] = "="
                        THEN LET k == SubSeq(kvs[n], 1, FirstEq(kvs[n]) - 1)
                                 v == SubSeq(kvs[n], FirstEq(kvs[n]) + 1, Len(kvs[n]))
                             IN  /\ LastRowOfMachine(output, i)
                                    => /\ k \in DOMAIN facts.fleet_machines[id].metadata
                                       /\ facts.fleet_machines[id].metadata[k] = v
                                 /\ k \in DOMAIN facts.fleet_machines_by.meta
                                 /\ v \in DOMAIN facts.fleet_machines_by.meta[k]
                                 /\ id \in DOMAIN facts.fleet_machines_by.meta[k][v]
                        ELSE LastRowOfMachine(output, i)
                                => kvs[n] \notin DOMAIN facts.fleet_machines[id].metadata

C24_ChangedIffMutated ==
    (pc = "done" /\ result = "exit")
        => (changed <=> \E i \in DOMAIN trace :
                            Mutating(trace[i]) /\ trace[i].res = "ok")

\* C24 witness: a restart whose stop and start were both accepted, reported
\* with changed=true.
C24_Witness ==
    /\ pc = "done"
    /\ result = "exit"
    /\ params.state = "restarted"
    /\ changed
    /\ \E i, j \in DOMAIN trace :
          /\ i < j
          /\ trace[i] = Ev("set", "inactive", "ok")
          /\ trace[j] = Ev("set", "launched", "ok")

\* C25: after parse_facts returned (for any listing, those where an id or a
\* hash occurs in more than one row included), every id under by-ip[v] or
\* by-metadata[k][v], and every hash under the load, active, sub or machine
\* index at [v], is a key of the primary map, and the primary record of that
\* id or hash has the value v in the indexed field.
C25_IndexesAgreeWithPrimary ==
    /\ (command = "list-machines" /\ raised = "returned")
          => LET machines == facts.fleet_machines
                 by_ip == facts.fleet_machines_by.ip
                 by_meta == facts.fleet_machines_by.meta
             IN  /\ \A v \in DOMAIN by_ip : \A id \in DOMAIN by_ip[v] :
                       /\ id \in DOMAIN machines
                       /\ machines[id].ip = v
                 /\ \A k \in DOMAIN by_meta : \A v \in DOMAIN by_meta[k] :
                       \A id \in DOMAIN by_meta[k][v] :
                          /\ id \in DOMAIN machines
                          /\ k \in DOMAIN machines[id].metadata
                          /\ machines[id].metadata[k] = v
    /\ (command = "list-units" /\ raised = "returned")
          => \A n \in 1..4 : \A v \in DOMAIN UnitIndex(facts, n) :
                \A h \in DOMAIN UnitIndex(facts, n)[v] :
                   /\ h \in DOMAIN facts.fleet_units
                   /\ facts.fleet_units[h][UnitColumn(n + 2)] = v

====
